---- MODULE Spec2Model ----
(***************************************************************************)
(* The live market-data subsystem of etrader-lib: ETradeMarket (the pool   *)
(* manager: symbols_data, symbols_tracker, add_symbols, remove_symbols)    *)
(* and SymbolTracker (the poller thread: symbols, run, get_prices), from   *)
(* src/package/etrader-lib/src/etrade/etrade_market.py.                    *)
(*                                                                         *)
(* One caller thread issues add_symbols / remove_symbols calls; every      *)
(* SymbolTracker runs concurrently.  A call is a sequence of steps, one    *)
(* per access to the state shared with the poller threads, so that the     *)
(* poller steps interleave with it as they do under the interpreter lock.  *)
(***************************************************************************)
EXTENDS Integers, Sequences, FiniteSets, TLC

\* ------------------------------------------------------------------ bounds
\* Symbols the caller passes: 1..NumSymbols.
NumSymbols == 2
\* Longest list passed to add_symbols / remove_symbols.
MaxLen == 2
\* Distinct quotes the server answers with.
NumPrices == 2
\* Calls the caller issues in one behaviour.
MaxCalls == 2
\* Largest retry count a SecureRequester is configured with.
MaxRetries == 3

\* is_tracker_full: len(self.symbols) >= 25
Capacity == 25

Symbols == 1..NumSymbols
Prices == 1..NumPrices

\* The lists a caller passes (the empty list included).
SymbolLists == UNION {[1..n -> Symbols] : n \in 0..MaxLen}

\* Symbols other than the caller's, tracked from the start in SpecFull:
\* Capacity - 1 distinct symbols, as after add_symbols(Ballast).
Ballast == [k \in 1..(Capacity - 1) |-> NumSymbols + k]

Range(seq) == {seq[k] : k \in DOMAIN seq}

\* ------------------------------------------------------------- python data
\* None as a constructor argument: a credential that was not given.
None == "None"

\* None in the place of a price: prices are positive numbers.
NoPrice == 0

\* A Price Table entry {"symbol": symbol, "price": price}.
Entry(symbol, price) == [symbol |-> symbol, price |-> price]

\* dict assignment d[key] = value, and del d[key].
DictSet(d, key, value) ==
  [x \in (DOMAIN d) \cup {key} |-> IF x = key THEN value ELSE d[x]]

DictDel(d, key) == [x \in (DOMAIN d) \ {key} |-> d[x]]

EmptyDict == [x \in {} |-> Entry(x, NoPrice)]

\* list.remove(x): drops the first occurrence of x.
FirstIndex(seq, x) == CHOOSE k \in DOMAIN seq : seq[k] = x /\ \A j \in 1..(k - 1) : seq[j] # x

ListRemove(seq, x) ==
  LET k == FirstIndex(seq, x)
  IN [j \in 1..(Len(seq) - 1) |-> IF j < k THEN seq[j] ELSE seq[j + 1]]

\* del of the k-th item of an insertion-ordered dict.
DropAt(seq, k) == [j \in 1..(Len(seq) - 1) |-> IF j < k THEN seq[j] ELSE seq[j + 1]]

\* ------------------------------------------------------------------- state
VARIABLES
  symbols_data,     \* ETradeMarket.symbols_data: symbol -> entry
  symbols_tracker,  \* ETradeMarket.symbols_tracker, in insertion order:
                    \* items [thread |-> the SymbolTracker, symbols |-> its list]
  pc,               \* where the caller is: "idle", "add", "add_store", "remove", "join";
                    \* "new" in ETradeMarket(...), "unconstructed" once that raised
  args,             \* the list (for ETradeMarket(...): the arguments) of the call in progress
  i,                \* index in args of the symbol being processed
  joining,          \* the item of symbols_tracker whose thread is being joined
  raised,           \* how the last call ended: "ok", or the ValueError it raised
                    \* ("none" before the first call and during a call)
  before,           \* the trackers and the Price Table as the call in progress found them
  calls,            \* calls issued since the initial state
  session           \* the SecureRequester.get call followed attempt by attempt

vars ==
  <<symbols_data, symbols_tracker, pc, args, i, joining, raised, before, calls, session>>

\* ------------------------------------------------------------ SymbolTracker
\* SymbolTracker.__init__ followed by start(): the thread is at the top of run.
SymbolTracker(symbol) == [symbols |-> <<symbol>>, at |-> "loop", url |-> <<>>]

is_tracker_full_off_by_one(t) == Len(t.symbols) > Capacity

is_tracker_full(t) == Len(t.symbols) >= Capacity

add_symbol(t, symbol) == [t EXCEPT !.symbols = Append(@, symbol)]

remove_symbol_clears(t, symbol) == [t EXCEPT !.symbols = <<>>]

remove_symbol(t, symbol) == [t EXCEPT !.symbols = ListRemove(@, symbol)]

\* The lastTrade the server gives for a symbol when it answers with quote q:
\* symbols of one response differ in price, and so do quotes of one symbol.
lastTrade(symbol, q) == ((symbol + q) % NumPrices) + 1

\* get_prices, on a well-formed response to the request for url.
get_prices(url, q) == [s \in Range(url) |-> lastTrade(s, q)]

UpdatePrices_keeps_only_prices(data, prices) ==
  [s \in DOMAIN prices |-> Entry(s, prices[s])]

\* The loop body's update of symbols_data with prices.
UpdatePrices(data, prices) ==
  [s \in (DOMAIN data) \cup (DOMAIN prices) |->
     IF s \in DOMAIN prices THEN Entry(s, prices[s]) ELSE data[s]]

\* ---------------------------------------------------------- SecureRequester
\* The statuses the endpoint answers with, and those a status_forcelist names.
Statuses == {"200", "500", "503"}

Retryable == {"500", "503"}

RetryPolicy_without_forcelist(retries, status_forcelist) ==
  [total |-> retries, read |-> retries, connect |-> retries, status_forcelist |-> {}]

\* get_retry_session, lines 112-118: the Retry mounted on the session.
RetryPolicy(retries, status_forcelist) ==
  [total |-> retries, read |-> retries, connect |-> retries,
   status_forcelist |-> status_forcelist]

\* No SecureRequester.get call is followed.
NoSession ==
  [retries |-> 0, status_forcelist |-> {}, retry |-> RetryPolicy(0, {}),
   answers |-> <<>>, outcome |-> "none"]

\* SecureRequester.get, lines 143-146: a session with the retry policy of the
\* requester's retries and status_forcelist sends the request.
NewSession(retries, status_forcelist) ==
  [retries |-> retries, status_forcelist |-> status_forcelist,
   retry |-> RetryPolicy(retries, status_forcelist),
   answers |-> <<>>, outcome |-> "pending"]

\* The adapter's Retry after one more retry of the given kind ("status",
\* "connect" or "read"): total and the kind's own counter go down by one.
Increment(retry, kind) ==
  [retry EXCEPT !.total = @ - 1,
                !.connect = IF kind = "connect" THEN @ - 1 ELSE @,
                !.read = IF kind = "read" THEN @ - 1 ELSE @]

\* The Retry is exhausted once one of its counters is below zero.
Exhausted(retry) == retry.total < 0 \/ retry.connect < 0 \/ retry.read < 0

\* ----------------------------------------------------------------- caller
\* What a call remembers of the state it found: the keys of the Price Table,
\* the Price Table (kept up to date with the prices the threads write during
\* the call) and, per item of symbols_tracker, the thread's batch and the
\* manager's list.
Snapshot(data, tracker) ==
  [keys |-> DOMAIN data,
   data |-> data,
   trackers |-> [k \in 1..Len(tracker) |->
                   [batch |-> tracker[k].thread.symbols, symbols |-> tracker[k].symbols]]]

NoSnapshot == Snapshot(EmptyDict, <<>>)

Init ==
  /\ symbols_data = EmptyDict
  /\ symbols_tracker = <<>>
  /\ pc = "idle"
  /\ args = <<>>
  /\ i = 0
  /\ joining = 0
  /\ raised = "none"
  /\ before = NoSnapshot
  /\ calls = 0
  /\ session = NoSession

\* The call in progress ends: it returns ("ok") or raises a ValueError.
Return(outcome) ==
  /\ pc' = "idle"
  /\ args' = <<>>
  /\ i' = 0
  /\ joining' = 0
  /\ raised' = outcome
  /\ before' = NoSnapshot

\* The for loop over the call's list moves to the next symbol, or the call returns.
NextSymbol(label) ==
  IF i < Len(args)
  THEN /\ pc' = label
       /\ i' = i + 1
       /\ joining' = 0
       /\ UNCHANGED <<args, raised, before>>
  ELSE Return("ok")

\* A call starts: the emptiness check, then the loop over the list.
Call(label, symbols) ==
  /\ pc = "idle"
  /\ calls < MaxCalls
  /\ calls' = calls + 1
  /\ IF Len(symbols) = 0
     THEN Return("empty")
     ELSE /\ pc' = label
          /\ args' = symbols
          /\ i' = 1
          /\ raised' = "none"
          /\ before' = Snapshot(symbols_data, symbols_tracker)
          /\ UNCHANGED joining
  /\ UNCHANGED <<symbols_data, symbols_tracker, session>>

Place_creates_when_full(tracker, symbol) ==
  LET open == {k \in 1..Len(tracker) : ~is_tracker_full(tracker[k].thread)}
  IN IF open = {}
     THEN Append(tracker, [thread |-> SymbolTracker(symbol), symbols |-> <<symbol>>])
     ELSE LET k == CHOOSE k \in open : \A j \in open : k <= j
          IN [tracker EXCEPT ![k].thread = add_symbol(@, symbol)]

\* add_symbols, lines 109-127: the symbol goes to the first thread that is
\* not full; with no thread at all, a new thread is created for it, started
\* and registered with the list [symbol].
Place(tracker, symbol) ==
  IF Len(tracker) > 0
  THEN LET open == {k \in 1..Len(tracker) : ~is_tracker_full(tracker[k].thread)}
       IN IF open = {}
          THEN tracker
          ELSE LET k == CHOOSE k \in open : \A j \in open : k <= j
               IN [tracker EXCEPT ![k].thread = add_symbol(@, symbol)]
  ELSE Append(tracker, [thread |-> SymbolTracker(symbol), symbols |-> <<symbol>>])

add_symbols(symbols) == Call("add", symbols)

\* add_symbols, lines 103-127, for the symbol args[i]: the duplicate check and
\* the placing are one step (no thread reads or writes what lies between them:
\* threads write symbols_data and only read their batch).  add_symbol's own
\* "tracker is full" error cannot occur: Place tests is_tracker_full first.
add_symbols_place ==
  /\ pc = "add"
  /\ IF args[i] \in DOMAIN symbols_data
     THEN /\ Return("already_tracked")
          /\ UNCHANGED symbols_tracker
     ELSE /\ symbols_tracker' = Place(symbols_tracker, args[i])
          /\ pc' = "add_store"
          /\ UNCHANGED <<args, i, joining, raised, before>>
  /\ UNCHANGED <<symbols_data, calls, session>>

\* add_symbols, line 130: the placeholder entry of args[i].
add_symbols_store ==
  /\ pc = "add_store"
  /\ symbols_data' = DictSet(symbols_data, args[i], Entry(args[i], NoPrice))
  /\ NextSymbol("add")
  /\ UNCHANGED <<symbols_tracker, calls, session>>

remove_symbols(symbols) == Call("remove", symbols)

\* The items of symbols_tracker whose list holds the symbol.
Listing(tracker, symbol) == {k \in 1..Len(tracker) : symbol \in Range(tracker[k].symbols)}

\* remove_symbols, lines 147-163, for the symbol args[i], up to the join: the
\* not-tracked check, the del, the search of the manager's lists and
\* remove_symbol, which raises when the thread's batch lacks the symbol.
\* The del of line 162 is followed by break, so the iteration over the
\* mutated dict is never resumed.
remove_symbols_step ==
  /\ pc = "remove"
  /\ LET symbol == args[i]
         found == Listing(symbols_tracker, symbol)
     IN IF symbol \notin DOMAIN symbols_data
        THEN /\ Return("not_tracked")
             /\ UNCHANGED <<symbols_data, symbols_tracker>>
        ELSE /\ symbols_data' = DictDel(symbols_data, symbol)
             /\ IF found = {}
                THEN /\ NextSymbol("remove")
                     /\ UNCHANGED symbols_tracker
                ELSE LET k == CHOOSE k \in found : \A j \in found : k <= j
                         thread == symbols_tracker[k].thread
                     IN IF symbol \notin Range(thread.symbols)
                        THEN /\ Return("not_in_tracker")
                             /\ UNCHANGED symbols_tracker
                        ELSE /\ symbols_tracker' =
                                  [symbols_tracker EXCEPT ![k].thread = remove_symbol(@, symbol)]
                             /\ IF Len(thread.symbols) = 1
                                THEN /\ pc' = "join"
                                     /\ joining' = k
                                     /\ UNCHANGED <<args, i, raised, before>>
                                ELSE NextSymbol("remove")
  /\ UNCHANGED <<calls, session>>

\* Thread.join returns once run has ended, by returning or by raising.
Ended(t) == t.at \in {"exited", "raised"}

\* remove_symbols, lines 161-163: join the emptied thread, then forget it.
remove_symbols_join ==
  /\ pc = "join"
  /\ Ended(symbols_tracker[joining].thread)
  /\ symbols_tracker' = DropAt(symbols_tracker, joining)
  /\ NextSymbol("remove")
  /\ UNCHANGED <<symbols_data, calls, session>>

\* ----------------------------------------------------------------- poller
Step(k, thread) ==
  /\ symbols_tracker' = [symbols_tracker EXCEPT ![k].thread = thread]
  /\ UNCHANGED <<pc, args, i, joining, raised, calls, session>>

run_loop_never_exits(k) ==
  LET t == symbols_tracker[k].thread
  IN /\ t.at = "loop"
     /\ Step(k, [t EXCEPT !.at = "get_prices"])
     /\ UNCHANGED <<symbols_data, before>>

\* run, line 275: the loop test.
run_loop(k) ==
  LET t == symbols_tracker[k].thread
  IN /\ t.at = "loop"
     /\ Step(k, [t EXCEPT !.at = IF Len(t.symbols) > 0 THEN "get_prices" ELSE "exited"])
     /\ UNCHANGED <<symbols_data, before>>

\* get_prices, lines 252-255: the URL is built from the batch and requested.
get_prices_request(k) ==
  LET t == symbols_tracker[k].thread
  IN /\ t.at = "get_prices"
     /\ Step(k, [t EXCEPT !.at = "get", !.url = t.symbols])
     /\ UNCHANGED <<symbols_data, before>>

\* get_prices returns the prices of a well-formed response and the loop body
\* (lines 280-281) writes them into symbols_data.
run_update(k, q) ==
  LET t == symbols_tracker[k].thread
      prices == get_prices(t.url, q)
  IN /\ t.at = "get"
     /\ symbols_data' = UpdatePrices(symbols_data, prices)
     /\ before' = IF pc = "idle" THEN before
                  ELSE [before EXCEPT !.data = UpdatePrices(@, prices)]
     /\ Step(k, [t EXCEPT !.at = "loop", !.url = <<>>])

\* Where run is after get_prices raised: nothing in run catches it.
AfterRaise == "raised"

get_prices_raises_clearing(k) ==
  LET t == symbols_tracker[k].thread
  IN /\ t.at = "get"
     /\ Step(k, [t EXCEPT !.at = AfterRaise, !.url = <<>>])
     /\ symbols_data' = [s \in DOMAIN symbols_data |-> Entry(s, NoPrice)]
     /\ UNCHANGED before

\* get_prices raises: the transport failed (secure_requester.get raised) or
\* the payload lacks QuoteResponse / QuoteData / lastTrade (KeyError).
get_prices_raises(k) ==
  LET t == symbols_tracker[k].thread
  IN /\ t.at = "get"
     /\ Step(k, [t EXCEPT !.at = AfterRaise, !.url = <<>>])
     /\ UNCHANGED <<symbols_data, before>>

\* ------------------------------------------------------------ specification
Next ==
  \/ \E symbols \in SymbolLists : add_symbols(symbols)
  \/ add_symbols_place
  \/ add_symbols_store
  \/ \E symbols \in SymbolLists : remove_symbols(symbols)
  \/ remove_symbols_step
  \/ remove_symbols_join
  \/ \E k \in 1..Len(symbols_tracker) : run_loop(k)
  \/ \E k \in 1..Len(symbols_tracker) : get_prices_request(k)
  \/ \E k \in 1..Len(symbols_tracker), q \in Prices : run_update(k, q)
  \/ \E k \in 1..Len(symbols_tracker) : get_prices_raises(k)

Spec == Init /\ [][Next]_vars

\* The state after add_symbols(Ballast) on a new manager, before the thread
\* it started has run: one thread holding Capacity - 1 symbols.
InitFull ==
  /\ symbols_data = [s \in Range(Ballast) |-> Entry(s, NoPrice)]
  /\ symbols_tracker =
       <<[thread |-> [symbols |-> Ballast, at |-> "loop", url |-> <<>>],
          symbols |-> <<Ballast[1]>>]>>
  /\ pc = "idle"
  /\ args = <<>>
  /\ i = 0
  /\ joining = 0
  /\ raised = "ok"
  /\ before = NoSnapshot
  /\ calls = 0
  /\ session = NoSession

\* ------------------------------------------------------------ construction
\* What ETradeMarket(...) is given for a credential: nothing, "" or a key.
Credentials == {None, "", "key"}

\* The arguments of ETradeMarket(...): whether a SecureRequester is passed,
\* and the four credentials.
ConstructorArgs ==
  [secure_requester : BOOLEAN,
   client_key : Credentials,
   client_secret : Credentials,
   resource_owner_key : Credentials,
   resource_owner_secret : Credentials]

\* python's "not x" for a credential.
Not(x) == x = None \/ x = ""

\* ETradeMarket.__init__, lines 48-54: "not a or not b and not c and not d and
\* not e" is "(not a) or ((not b) and (not c) and (not d) and (not e))".
MissingArguments(a) ==
  \/ ~a.secure_requester
  \/ /\ Not(a.client_key)
     /\ Not(a.client_secret)
     /\ Not(a.resource_owner_key)
     /\ Not(a.resource_owner_secret)

\* SecureRequester.__init__, line 84: it raises ValueError.
SecureRequesterRaises(a) == a.client_key = None \/ a.client_secret = None

\* ETradeMarket.__init__ raises ValueError: by its own check, or in the
\* SecureRequester it builds when none is passed.
ConstructorRaises(a) ==
  \/ MissingArguments(a)
  \/ ~a.secure_requester /\ SecureRequesterRaises(a)

\* ETradeMarket(...) is about to run with some arguments.
InitNew ==
  /\ symbols_data = EmptyDict
  /\ symbols_tracker = <<>>
  /\ pc = "new"
  /\ args \in ConstructorArgs
  /\ i = 0
  /\ joining = 0
  /\ raised = "none"
  /\ before = NoSnapshot
  /\ calls = 0
  /\ session = NoSession

\* ETradeMarket.__init__: it raises, or sets symbols_data and symbols_tracker
\* to empty dicts and returns the manager.
ETradeMarket_init ==
  /\ pc = "new"
  /\ IF ConstructorRaises(args)
     THEN /\ pc' = "unconstructed"
          /\ raised' = "ValueError"
          /\ UNCHANGED args
     ELSE /\ pc' = "idle"
          /\ raised' = "none"
          /\ args' = <<>>
  /\ symbols_data' = EmptyDict
  /\ symbols_tracker' = <<>>
  /\ UNCHANGED <<i, joining, before, calls, session>>

NextNew == ETradeMarket_init \/ Next

SpecNew == InitNew /\ [][NextNew]_vars

\* ---------------------------------------------------- SecureRequester.get
\* A manager as constructed, and one SecureRequester.get call about to send
\* its first attempt, for every configuration of the requester.
InitGet ==
  /\ symbols_data = EmptyDict
  /\ symbols_tracker = <<>>
  /\ pc = "idle"
  /\ args = <<>>
  /\ i = 0
  /\ joining = 0
  /\ raised = "none"
  /\ before = NoSnapshot
  /\ calls = 0
  /\ \E retries \in 0..MaxRetries, status_forcelist \in SUBSET Retryable :
       session = NewSession(retries, status_forcelist)

Manager == <<symbols_data, symbols_tracker, pc, args, i, joining, raised, before, calls>>

\* One attempt is answered with a status.  A status of the forcelist is
\* retried while the Retry is not exhausted, and ends the call with
\* RetryError once it is; any other status is get's response (line 152).
endpoint_answers(status) ==
  /\ session.outcome = "pending"
  /\ LET answers == Append(session.answers, status)
         retry == Increment(session.retry, "status")
     IN IF status \in session.retry.status_forcelist
        THEN session' = [session EXCEPT !.answers = answers,
                                        !.retry = retry,
                                        !.outcome = IF Exhausted(retry) THEN "RetryError"
                                                    ELSE "pending"]
        ELSE session' = [session EXCEPT !.answers = answers, !.outcome = status]
  /\ UNCHANGED Manager

\* One attempt fails to connect or to read the answer: it is retried while
\* the Retry is not exhausted, and ends the call with ConnectionError once it is.
attempt_fails(kind) ==
  /\ session.outcome = "pending"
  /\ LET retry == Increment(session.retry, kind)
     IN session' = [session EXCEPT !.answers = Append(@, kind),
                                   !.retry = retry,
                                   !.outcome = IF Exhausted(retry) THEN "ConnectionError"
                                               ELSE "pending"]
  /\ UNCHANGED Manager

NextGet ==
  \/ \E status \in Statuses : endpoint_answers(status)
  \/ \E kind \in {"connect", "read"} : attempt_fails(kind)

SpecGet == InitGet /\ [][NextGet]_vars

\* ------------------------------------------------------------ fair scheduling
\* Every fetch returns a well-formed response: get_prices never raises.
NextReturning ==
  \/ \E symbols \in SymbolLists : add_symbols(symbols)
  \/ add_symbols_place
  \/ add_symbols_store
  \/ \E symbols \in SymbolLists : remove_symbols(symbols)
  \/ remove_symbols_step
  \/ remove_symbols_join
  \/ \E k \in 1..Len(symbols_tracker) : run_loop(k)
  \/ \E k \in 1..Len(symbols_tracker) : get_prices_request(k)
  \/ \E k \in 1..Len(symbols_tracker), q \in Prices : run_update(k, q)

\* The next step of the thread of symbols_tracker's item k (SymbolTracker.run).
PollerStep(k) ==
  /\ k <= Len(symbols_tracker)
  /\ \/ run_loop(k)
     \/ get_prices_request(k)
     \/ \E q \in Prices : run_update(k, q)

\* The next step of the call in progress, in the caller's thread.
CallerStep ==
  \/ add_symbols_place
  \/ add_symbols_store
  \/ remove_symbols_step
  \/ remove_symbols_join

\* Threads are scheduled fairly: a thread that can take a step takes one.
\* Nothing obliges the caller to issue a call.  A thread is created for a
\* symbol not tracked before, so symbols_tracker has at most one item per symbol.
FairScheduling ==
  /\ \A k \in 1..NumSymbols : WF_vars(PollerStep(k))
  /\ WF_vars(CallerStep)

SpecFair == Init /\ [][NextReturning]_vars /\ FairScheduling

\* The manager is new, or has been filled with add_symbols(Ballast).
InitNewOrFull == Init \/ InitFull

SpecFull == InitNewOrFull /\ [][Next]_vars

SpecFullFair == InitNewOrFull /\ [][NextReturning]_vars /\ FairScheduling

\* ------------------------------------------------------------------ views
\* The key set of the Price Table.
Keys == DOMAIN symbols_data

\* The batch of the k-th Poller of the manager's Poller set.
Batch(k) == symbols_tracker[k].thread.symbols

Pollers == 1..Len(symbols_tracker)

\* The Pollers whose batch holds the symbol.
PollersHolding(s) == {k \in Pollers : s \in Range(Batch(k))}

\* The batches and lists of the manager's Poller set, as a call snapshots them.
PollerSet == Snapshot(symbols_data, symbols_tracker).trackers

\* Steps in which a call ends.
AddReturns == pc = "add_store" /\ pc' = "idle" /\ raised' = "ok"

RemoveReturns == pc \in {"remove", "join"} /\ pc' = "idle" /\ raised' = "ok"

AddRaisesDuplicate == pc = "add" /\ pc' = "idle" /\ raised' = "already_tracked"

RemoveRaisesNotTracked == pc = "remove" /\ pc' = "idle" /\ raised' = "not_tracked"

\* ----------------------------------------------------------------- claims
\* C1: when a successful add_symbols(S) returns, every symbol of S is in the
\* batch of exactly one Poller of the manager's Poller set and is a key of
\* the Price Table.
C1_AddedToOnePoller ==
  [][AddReturns =>
       \A s \in Range(args) :
         /\ Cardinality(PollersHolding(s)') = 1
         /\ s \in Keys']_vars

\* C2: whenever add_symbols places a symbol while no existing Poller has spare
\* capacity (the 26th distinct symbol after 25), it creates a new Poller, seeded
\* with that symbol alone and started, at the end of the Poller set.
C2_NewPollerWhenFull ==
  [][(/\ pc = "add"
      /\ pc' = "add_store"
      /\ \A k \in Pollers : is_tracker_full(symbols_tracker[k].thread))
     => /\ Len(symbols_tracker') = Len(symbols_tracker) + 1
        /\ symbols_tracker'[Len(symbols_tracker')].thread.symbols = <<args[i]>>
        /\ symbols_tracker'[Len(symbols_tracker')].thread.at = "loop"]_vars

\* C3: in every reachable state no Poller's batch holds more than 25 symbols.
C3_NeverOverCapacity == \A k \in Pollers : Len(Batch(k)) <= Capacity

\* A Poller holds 25 symbols and an add_symbols call made since has returned:
\* its symbol is a key of the Price Table and in no batch.
C3_FullAndAdded ==
  /\ pc = "idle"
  /\ raised = "ok"
  /\ \E k \in Pollers : Len(Batch(k)) = Capacity
  /\ \E s \in Keys : PollersHolding(s) = {}

\* C4: when a remove_symbols call that found a tracked symbol in every Poller
\* returns, every Poller still in the manager's Poller set has a tracked symbol
\* in its batch: a Poller whose last tracked symbol the call removed is gone.
C4_EmptiedPollerDiscarded ==
  [][(/\ RemoveReturns
      /\ \A k \in DOMAIN before.trackers :
           Range(before.trackers[k].batch) \cap before.keys # {})
     => \A k \in 1..Len(symbols_tracker') :
          Range(symbols_tracker'[k].thread.symbols) \cap Keys' # {}]_vars

\* C5: when remove_symbols(S) returns, no symbol of S is in any Poller's batch.
C5_RemovedFromBatch ==
  [][RemoveReturns => \A s \in Range(args) : PollersHolding(s)' = {}]_vars

\* C6: an add_symbols call that fails with the duplicate-symbol error leaves
\* the Price Table, the Poller set and every batch as the call found them.
C6_DuplicateLeavesState ==
  [][AddRaisesDuplicate =>
       /\ symbols_data' = before.data
       /\ PollerSet' = before.trackers]_vars

\* C7: a remove_symbols call that fails with the not-tracked error leaves the
\* Price Table, the Poller set and every batch as the call found them.
C7_NotTrackedLeavesState ==
  [][RemoveRaisesNotTracked =>
       /\ symbols_data' = before.data
       /\ PollerSet' = before.trackers]_vars

\* C8: with no call in progress, the union of the batches of the Pollers is
\* the key set of the Price Table and no symbol is in two batches.
C8_BatchesAreKeys ==
  pc = "idle" =>
    /\ UNION {Range(Batch(k)) : k \in Pollers} = Keys
    /\ \A s \in Keys : Cardinality(PollersHolding(s)) <= 1

\* C9: when remove_symbols(S) returns, no symbol of S is a key of the Price
\* Table, and while no call is in progress no key appears in the Price Table.
C9_RemovedStaysAbsent ==
  [][/\ RemoveReturns => \A s \in Range(args) : s \notin Keys'
     /\ (pc = "idle" /\ pc' = "idle") => Keys' \subseteq Keys]_vars

\* C10: a Poller with a non-empty batch whose fetch is in progress stays in
\* its loop whatever the fetch's outcome: its next position is the loop test.
C10_LoopSurvivesFailure ==
  [][\A k \in Pollers :
       (/\ Len(symbols_tracker') = Len(symbols_tracker)
        /\ symbols_tracker[k].thread.at = "get"
        /\ Len(Batch(k)) > 0)
       => symbols_tracker'[k].thread.at \in {"get", "loop"}]_vars

\* The k-th Poller's fetch returns a well-formed response in this step.
FetchSucceeds(k) ==
  /\ Len(symbols_tracker') = Len(symbols_tracker)
  /\ symbols_tracker[k].thread.at = "get"
  /\ symbols_tracker'[k].thread.at = "loop"

\* C11: a successful fetch cycle sets the entry of each symbol s of the
\* response to {symbol: s, price: the response's lastTrade of s} and leaves
\* every other entry of the Price Table as it was.
C11_FetchWritesResponse ==
  [][\A k \in Pollers :
       FetchSucceeds(k) =>
         LET requested == Range(symbols_tracker[k].thread.url)
         IN /\ \E q \in Prices :
                 \A s \in requested :
                   /\ s \in Keys'
                   /\ symbols_data'[s] = [symbol |-> s, price |-> lastTrade(s, q)]
            /\ Keys' = Keys \cup requested
            /\ \A s \in Keys \ requested : symbols_data'[s] = symbols_data[s]]_vars

\* A fetch for a batch of two symbols has completed: the Price Table holds a
\* price for each, and the two prices differ.
C11_TwoPricesWritten ==
  \E k \in Pollers :
    /\ symbols_tracker[k].thread.at = "loop"
    /\ \E s1 \in Range(Batch(k)), s2 \in Range(Batch(k)) :
         /\ s1 # s2
         /\ s1 \in Keys /\ s2 \in Keys
         /\ symbols_data[s1].price \in Prices
         /\ symbols_data[s2].price \in Prices
         /\ symbols_data[s1].price # symbols_data[s2].price

\* All four credentials are given.
FullCredentials(a) ==
  /\ ~Not(a.client_key)
  /\ ~Not(a.client_secret)
  /\ ~Not(a.resource_owner_key)
  /\ ~Not(a.resource_owner_secret)

NoCredentials(a) ==
  /\ a.client_key = None
  /\ a.client_secret = None
  /\ a.resource_owner_key = None
  /\ a.resource_owner_secret = None

\* C12: ETradeMarket(...) succeeds given a SecureRequester and no credentials,
\* succeeds given all credentials and no SecureRequester, and raises only when
\* given neither a SecureRequester nor all credentials.
C12_ConstructsWithEither ==
  [][pc = "new" =>
       /\ (args.secure_requester /\ NoCredentials(args)) => pc' = "idle"
       /\ (~args.secure_requester /\ FullCredentials(args)) => pc' = "idle"
       /\ pc' = "unconstructed" =>
            (~args.secure_requester /\ ~FullCredentials(args))]_vars

\* The attempts of the followed call that failed: answered with a status of
\* the requester's status_forcelist, or not answered.
FailedAttempts ==
  {n \in 1..Len(session.answers) :
     session.answers[n] \in session.status_forcelist \cup {"connect", "read"}}

\* C13: a get call returns the 200 answered after k failed attempts, at attempt
\* k + 1 and with no attempt after it; it never returns a status of its
\* status_forcelist; it ends in an error only when all its attempts failed,
\* at least R of them; and it makes at most R + 1 attempts, R the retry count.
C13_RetriesThenAnswer ==
  LET n == Len(session.answers)
      k == Cardinality(FailedAttempts)
  IN /\ session.outcome = "pending" => (k = n /\ k <= session.retries)
     /\ session.outcome \in Statuses =>
          /\ session.outcome \notin session.status_forcelist
          /\ session.answers[n] = session.outcome
          /\ k = n - 1
          /\ k <= session.retries
     /\ session.outcome \in {"RetryError", "ConnectionError"} =>
          (k = n /\ k >= session.retries)

\* retries = 3 and status_forcelist = {503}: 503 twice, then 200, returned at
\* the third attempt.
C13_ThirdAttemptSucceeds ==
  /\ session.retries = 3
  /\ session.status_forcelist = {"503"}
  /\ session.answers = <<"503", "503", "200">>
  /\ session.outcome = "200"

\* C14: with every fetch returning and fair scheduling, the thread of an
\* emptied batch ends, and the remove_symbols call joining it returns; and a
\* thread ends only when its batch is empty.
C14_EmptiedLoopStops ==
  /\ \A k \in 1..NumSymbols :
       (k \in Pollers /\ Len(Batch(k)) = 0 /\ ~Ended(symbols_tracker[k].thread))
         ~> (k \notin Pollers \/ Ended(symbols_tracker[k].thread))
  /\ (pc = "join" /\ Len(Batch(joining)) = 0) ~> (pc = "idle")
  /\ [][\A k \in Pollers :
          (/\ Len(symbols_tracker') = Len(symbols_tracker)
           /\ ~Ended(symbols_tracker[k].thread)
           /\ Ended(symbols_tracker'[k].thread)) => Len(Batch(k)) = 0]_vars

\* remove_symbols waits in join for a thread that has left its loop on the
\* empty batch.
C14_JoinedAfterExit ==
  /\ pc = "join"
  /\ Len(Batch(joining)) = 0
  /\ symbols_tracker[joining].thread.at = "exited"

\* C15: when add_symbols stores the placeholder of a symbol, no thread has
\* written an entry for that symbol yet: the placeholder is the first entry
\* and overwrites no price.
C15_PlaceholderFirst ==
  [][(pc = "add_store" /\ pc' # "add_store") => args[i] \notin Keys]_vars

\* C16: with every fetch returning a quote for each requested symbol and
\* fair scheduling, a tracked symbol whose price is still the placeholder
\* eventually has a price, unless it is removed.
C16_EveryTrackedSymbolPriced ==
  \A s \in Symbols :
    (s \in Keys /\ symbols_data[s].price = NoPrice)
      ~> (s \notin Keys \/ symbols_data[s].price # NoPrice)

\* C17: with no call in progress, the list symbols_tracker keeps for a thread
\* holds exactly the symbols of the thread's batch.
C17_ManagerListsBatches ==
  pc = "idle" =>
    \A k \in Pollers : Range(symbols_tracker[k].symbols) = Range(Batch(k))

\* A fetch of the thread of item k fails: get_prices raises.
FetchFails(k) ==
  /\ Len(symbols_tracker') = Len(symbols_tracker)
  /\ symbols_tracker[k].thread.at = "get"
  /\ symbols_tracker'[k].thread.at = AfterRaise

\* C18: a fetch that fails changes no entry of the Price Table: no entry is
\* added, removed, cleared or given another price.
C18_FailedFetchKeepsTable ==
  [][\A k \in Pollers : FetchFails(k) => symbols_data' = symbols_data]_vars

\* A fetch has failed while the Price Table holds a price.
C18_FailedWithPricePresent ==
  /\ \E k \in Pollers : symbols_tracker[k].thread.at = AfterRaise
  /\ \E s \in Keys : symbols_data[s].price # NoPrice

\* C19: on a new manager, with every fetch returning, add_symbols(S) followed
\* by remove_symbols of the same symbols, each once and in any order, leaves
\* the Price Table empty and symbols_tracker without a thread.  (The first
\* call left exactly the symbols of S as keys; the second call is given them all.)
C19_AddThenRemoveRestores ==
  [][(/\ RemoveReturns
      /\ calls = 2
      /\ Range(args) = before.keys
      /\ Len(args) = Cardinality(before.keys))
       => (symbols_data' = EmptyDict /\ symbols_tracker' = <<>>)]_vars

Removing == pc \in {"remove", "join"}

\* add_symbols places args[i] into the batch of the thread of item k.
PlacedInto(k) ==
  /\ pc = "add"
  /\ pc' = "add_store"
  /\ Len(symbols_tracker') = Len(symbols_tracker)
  /\ Batch(k) # symbols_tracker'[k].thread.symbols

\* C21: with no fetch raising, whenever no remove_symbols call is in progress
\* every thread of symbols_tracker has a non-empty batch and has not left its
\* loop; and add_symbols never places a symbol into a thread that has ended.
C21_PollersAliveOutsideRemove ==
  /\ [](~Removing =>
          \A k \in Pollers :
            Len(Batch(k)) > 0 /\ ~Ended(symbols_tracker[k].thread))
  /\ [][\A k \in Pollers : PlacedInto(k) => ~Ended(symbols_tracker[k].thread)]_vars

\* A second call, add_symbols, has placed its symbol into the batch of the
\* thread the first call started, while that thread is fetching.
C21_PlacedIntoRunningPoller ==
  /\ pc = "add_store"
  /\ calls = 2
  /\ Len(symbols_tracker) = 1
  /\ Len(Batch(1)) > 1
  /\ args[i] \in Range(Batch(1))
  /\ symbols_tracker[1].thread.at = "get"

====
